---- MODULE Spec2Model ----
(***************************************************************************)
(* S3Logger.Log (src/s3.go): a Docker log-driver request that fetches the  *)
(* object named after the container from S3, scans it line by line with a  *)
(* bufio.Scanner and pushes one LogLine per line onto the request's output *)
(* channel, polling the request's context before every send.               *)
(*                                                                         *)
(* Every request r is one goroutine running Log; pc[r] is its position.    *)
(* The host (receiving from the channel, cancelling the context) and the   *)
(* network (how many bytes a Read of the body returns, and whether it      *)
(* fails) are the environment.                                             *)
(***************************************************************************)
EXTENDS Integers, Sequences, FiniteSets, TLC

(* ------------------------------ bounds --------------------------------- *)

\* longest object body, in bytes
MaxLen == 4
\* bufio.MaxScanTokenSize (64 * 1024 in the Go library), scaled down so that
\* a body of MaxLen bytes can hold a line the scanner refuses
MaxScanTokenSize == 3
\* capacity of the host's channel config.Logs
ChanCap == 1

(* ------------------------------ inputs --------------------------------- *)

Bytes == {"a", "NL", "CR"}

RECURSIVE SeqsUpTo(_)
SeqsUpTo(n) ==
  IF n = 0 THEN {<<>>}
  ELSE LET S == SeqsUpTo(n - 1)
       IN  S \cup {Append(s, b) : s \in {t \in S : Len(t) = n - 1}, b \in Bytes}

Contents == SeqsUpTo(MaxLen)

NoObject == [exists |-> FALSE, data |-> <<>>]
Object(c) == [exists |-> TRUE, data |-> c]
Objects == {NoObject} \cup {Object(c) : c \in Contents}

\* the objects of the runs with two concurrent requests
ConcObjects ==
  {NoObject, Object(<<"a", "NL", "a", "a", "a">>), Object(<<"NL", "a", "CR", "NL">>)}

\* what the bucket holds under the key no request of a one-request run asks for
Decoy == Object(<<"a", "a", "CR", "NL">>)

ContainerIDs == {"c1", "c2"}
Sources == {"", "stderr"}
BucketName == "logs-test"
\* the handle s3.New(sess) returns
ClientHandle == "s3.New(sess)"

VARIABLES
  reqs,         \* the Log calls of this run
  bucket,       \* S3Logger.bucket
  s3Client,     \* S3Logger.s3Client
  remote,       \* the bucket's objects, by key
  config,       \* r -> the request message: Source, ContainerID
  ctxDone,      \* r -> ctx.Done() is closed
  pc,           \* r -> position of the goroutine in Log
  containerID,  \* r -> the local containerID
  fetches,      \* r -> calls of GetObjectWithContext made
  fetchErr,     \* r -> the err GetObjectWithContext returned
  opened,       \* r -> bodies the fetch handed out
  closed,       \* r -> calls of reader.Body.Close()
  deferred,     \* r -> deferred Close calls registered
  start,        \* r -> scanner: bytes of the body consumed as tokens
  end,          \* r -> scanner: bytes of the body read into the buffer
  serr,         \* r -> scanner: the sticky error
  logLine,      \* r -> scanner.Text()
  configLine,   \* r -> the LogLine under construction
  Logs,         \* r -> config.Logs, the channel's buffer
  emitted,      \* r -> every LogLine sent on config.Logs so far (history)
  result,       \* r -> what Log returned
  doneAt,       \* r -> Len(emitted[r]) when ctx was cancelled, -1 before (history)
  doneAtFetch,  \* r -> whether ctx was cancelled when the fetch was issued (history)
  exit          \* r -> the return statement Log left by (history)

vars == <<reqs, bucket, s3Client, remote, config, ctxDone, pc, containerID,
          fetches, fetchErr, opened, closed, deferred, start, end, serr,
          logLine, configLine, Logs, emitted, result, doneAt, doneAtFetch, exit>>

shared == <<reqs, bucket, s3Client, remote, config>>
scanner == <<start, end, serr, logLine>>
stream == <<opened, closed, deferred>>
fetchState == <<fetches, fetchErr, doneAtFetch>>

(* ------------------------------ results -------------------------------- *)

Pending == [kind |-> "pending", cause |-> ""]
Nil == [kind |-> "nil", cause |-> ""]
FetchError(cause) == [kind |-> "failed to get object from S3", cause |-> cause]
EncodingError(cause) == [kind |-> "error marshalling log line", cause |-> cause]

NoLine == [Line |-> <<>>, Source |-> "", Partial |-> FALSE]

(* --------------------- bufio.Scanner with ScanLines -------------------- *)

Min(a, b) == IF a < b THEN a ELSE b

\* bytes.IndexByte(data, '\n'), 1-based; 0 when there is none
IndexNL(data) ==
  IF \E i \in 1..Len(data) : data[i] = "NL"
  THEN CHOOSE i \in 1..Len(data) :
         data[i] = "NL" /\ \A j \in 1..(i - 1) : data[j] # "NL"
  ELSE 0

\* bufio.dropCR
DropCR(data) ==
  IF Len(data) > 0 /\ data[Len(data)] = "CR"
  THEN SubSeq(data, 1, Len(data) - 1)
  ELSE data

\* bufio.ScanLines: found is "token # nil"
ScanLines(data, atEOF) ==
  IF atEOF /\ Len(data) = 0
  THEN [advance |-> 0, token |-> <<>>, found |-> FALSE]
  ELSE IF IndexNL(data) > 0
  THEN [advance |-> IndexNL(data),
        token |-> DropCR(SubSeq(data, 1, IndexNL(data) - 1)), found |-> TRUE]
  ELSE IF atEOF
  THEN [advance |-> Len(data), token |-> DropCR(data), found |-> TRUE]
  ELSE [advance |-> 0, token |-> <<>>, found |-> FALSE]

(* ------------------------------ the store ------------------------------ *)

\* the object GetObjectInput{Bucket, Key} names
GetObject(b, k) == remote[b][k]

\* reader.Body of request r
Body(r) == GetObject(bucket, containerID[r]).data

\* the unconsumed bytes the scanner holds: s.buf[s.start:s.end]
Held(r) == SubSeq(Body(r), start[r] + 1, end[r])

\* what s.split returns on the held bytes
Split(r) == ScanLines(Held(r), serr[r] # "nil")

\* The errors GetObjectWithContext can return ("nil": none). The SDK sends the
\* request under ctx, so a context that is already done fails the request with
\* RequestCanceled; a missing key fails with NoSuchKey; any request can be
\* denied or hit a network failure.
FetchOutcomes(r) ==
  IF ctxDone[r] THEN {"RequestCanceled"}
  ELSE IF ~GetObject(bucket, containerID[r]).exists
  THEN {"NoSuchKey", "AccessDenied", "RequestError"}
  ELSE {"nil", "AccessDenied", "RequestError"}

(* ------------------------------ Log ------------------------------------ *)

\* Return without the deferred Close (the defer statement left out)
ReturnNoClose(r, res, how) ==
  /\ pc' = [pc EXCEPT ![r] = "done"]
  /\ exit' = [exit EXCEPT ![r] = how]
  /\ result' = [result EXCEPT ![r] = res]
  /\ closed' = closed

\* a return of Log with res, by the return statement how: the deferred
\* reader.Body.Close() runs
Return(r, res, how) ==
  /\ pc' = [pc EXCEPT ![r] = "done"]
  /\ exit' = [exit EXCEPT ![r] = how]
  /\ result' = [result EXCEPT ![r] = res]
  /\ closed' = [closed EXCEPT ![r] = @ + deferred[r]]

\* BuildLogLine with Source taken from the bucket name instead of the container
BuildLogLineBucket(line, id) == [Line |-> line, Source |-> BucketName, Partial |-> FALSE]

\* logger.LogLine{Line, Source, Partial} (the timestamp is not modelled)
BuildLogLine(line, id) == [Line |-> line, Source |-> id, Partial |-> FALSE]

\* LogEnter without the source-tag filter
LogEnterUnfiltered(r) ==
  /\ pc[r] = "entry"
  /\ containerID' = [containerID EXCEPT ![r] = config[r].ContainerID]
  /\ pc' = [pc EXCEPT ![r] = "fetch"]
  /\ UNCHANGED <<result, closed, exit>>
  /\ UNCHANGED <<shared, ctxDone, doneAt, fetchState, opened, deferred, scanner,
                 configLine, Logs, emitted>>

\* if config.Source != "" { return nil }; containerID := config.ContainerID
LogEnter(r) ==
  /\ pc[r] = "entry"
  /\ IF config[r].Source # ""
     THEN /\ Return(r, Nil, "filtered")
          /\ UNCHANGED containerID
     ELSE /\ containerID' = [containerID EXCEPT ![r] = config[r].ContainerID]
          /\ pc' = [pc EXCEPT ![r] = "fetch"]
          /\ UNCHANGED <<result, closed, exit>>
  /\ UNCHANGED <<shared, ctxDone, doneAt, fetchState, opened, deferred, scanner,
                 configLine, Logs, emitted>>

\* Fetch that tries once more after a first failure
FetchRetries(r) ==
  /\ pc[r] = "fetch"
  /\ \E err \in FetchOutcomes(r) :
       /\ fetches' = [fetches EXCEPT ![r] = @ + 1]
       /\ fetchErr' = [fetchErr EXCEPT ![r] = err]
       /\ doneAtFetch' = [doneAtFetch EXCEPT ![r] = ctxDone[r]]
       /\ IF err # "nil" /\ fetches[r] = 0
          THEN UNCHANGED <<pc, result, closed, exit, opened, deferred, scanner>>
          ELSE IF err # "nil"
          THEN /\ Return(r, FetchError(err), "fetch")
               /\ UNCHANGED <<opened, deferred, scanner>>
          ELSE /\ opened' = [opened EXCEPT ![r] = @ + 1]
               /\ deferred' = [deferred EXCEPT ![r] = @ + 1]
               /\ start' = [start EXCEPT ![r] = 0]
               /\ end' = [end EXCEPT ![r] = 0]
               /\ serr' = [serr EXCEPT ![r] = "nil"]
               /\ pc' = [pc EXCEPT ![r] = "scan"]
               /\ UNCHANGED <<result, closed, exit, logLine>>
  /\ UNCHANGED <<shared, ctxDone, doneAt, containerID, configLine, Logs, emitted>>

\* Fetch whose failure drops the shared client handle
FetchPoisons(r) ==
  /\ pc[r] = "fetch"
  /\ \E err \in FetchOutcomes(r) :
       /\ fetches' = [fetches EXCEPT ![r] = @ + 1]
       /\ fetchErr' = [fetchErr EXCEPT ![r] = err]
       /\ doneAtFetch' = [doneAtFetch EXCEPT ![r] = ctxDone[r]]
       /\ IF err # "nil"
          THEN /\ Return(r, FetchError(err), "fetch")
               /\ s3Client' = "nil"
               /\ UNCHANGED <<opened, deferred, scanner>>
          ELSE /\ opened' = [opened EXCEPT ![r] = @ + 1]
               /\ deferred' = [deferred EXCEPT ![r] = @ + 1]
               /\ start' = [start EXCEPT ![r] = 0]
               /\ end' = [end EXCEPT ![r] = 0]
               /\ serr' = [serr EXCEPT ![r] = "nil"]
               /\ pc' = [pc EXCEPT ![r] = "scan"]
               /\ UNCHANGED <<s3Client, result, closed, exit, logLine>>
  /\ UNCHANGED <<reqs, bucket, remote, config, ctxDone, doneAt, containerID,
                 configLine, Logs, emitted>>

\* reader, err := l.s3Client.GetObjectWithContext(ctx, ...); the error return;
\* defer reader.Body.Close(); scanner := bufio.NewScanner(reader.Body)
Fetch(r) ==
  /\ pc[r] = "fetch"
  /\ \E err \in FetchOutcomes(r) :
       /\ fetches' = [fetches EXCEPT ![r] = @ + 1]
       /\ fetchErr' = [fetchErr EXCEPT ![r] = err]
       /\ doneAtFetch' = [doneAtFetch EXCEPT ![r] = ctxDone[r]]
       /\ IF err # "nil"
          THEN /\ Return(r, FetchError(err), "fetch")
               /\ UNCHANGED <<opened, deferred, scanner>>
          ELSE /\ opened' = [opened EXCEPT ![r] = @ + 1]
               /\ deferred' = [deferred EXCEPT ![r] = @ + 1]
               /\ start' = [start EXCEPT ![r] = 0]
               /\ end' = [end EXCEPT ![r] = 0]
               /\ serr' = [serr EXCEPT ![r] = "nil"]
               /\ pc' = [pc EXCEPT ![r] = "scan"]
               /\ UNCHANGED <<result, closed, exit, logLine>>
  /\ UNCHANGED <<shared, ctxDone, doneAt, containerID, configLine, Logs, emitted>>

\* scanner.Scan() finds a token in what it holds; logLine := scanner.Text()
ScanToken(r) ==
  /\ pc[r] = "scan"
  /\ Split(r).found
  /\ start' = [start EXCEPT ![r] = @ + Split(r).advance]
  /\ logLine' = [logLine EXCEPT ![r] = Split(r).token]
  /\ pc' = [pc EXCEPT ![r] = "marshal"]
  /\ UNCHANGED <<shared, ctxDone, doneAt, fetchState, stream, end, serr,
                 containerID, configLine, Logs, emitted, result, exit>>

\* scanner.Scan() must read: one Read of the body returns n bytes and an error
ScanRead(r) ==
  /\ pc[r] = "scan"
  /\ ~Split(r).found
  /\ serr[r] = "nil"
  /\ end[r] - start[r] < MaxScanTokenSize
  /\ \E n \in 0..Min(MaxScanTokenSize - (end[r] - start[r]), Len(Body(r)) - end[r]),
        e \in {"nil", "EOF", "ReadError"} :
       /\ e = "nil" => n >= 1
       /\ e = "EOF" => end[r] + n = Len(Body(r))
       /\ end' = [end EXCEPT ![r] = @ + n]
       /\ serr' = [serr EXCEPT ![r] = e]
  /\ UNCHANGED <<shared, ctxDone, doneAt, fetchState, stream, start, logLine, pc,
                 containerID, configLine, Logs, emitted, result, exit>>

\* scanner.Scan() holds MaxScanTokenSize bytes without a newline: ErrTooLong,
\* Scan returns false, the loop ends and Log returns nil
ScanTooLong(r) ==
  /\ pc[r] = "scan"
  /\ ~Split(r).found
  /\ serr[r] = "nil"
  /\ end[r] - start[r] >= MaxScanTokenSize
  /\ serr' = [serr EXCEPT ![r] = "ErrTooLong"]
  /\ Return(r, Nil, "exhausted")
  /\ UNCHANGED <<shared, ctxDone, doneAt, fetchState, opened, deferred, start, end,
                 logLine, containerID, configLine, Logs, emitted>>

\* scanner.Scan() has an error (EOF or other) and nothing left: it returns
\* false, the loop ends and Log returns nil
ScanStop(r) ==
  /\ pc[r] = "scan"
  /\ ~Split(r).found
  /\ serr[r] # "nil"
  /\ Return(r, Nil, "exhausted")
  /\ UNCHANGED <<shared, ctxDone, doneAt, fetchState, opened, deferred, scanner,
                 containerID, configLine, Logs, emitted>>

\* configLine := logger.LogLine{...}; configLine.MarshalJSON() and its error
\* return. Whether the encoder fails is not decided by this code.
Marshal(r) ==
  /\ pc[r] = "marshal"
  /\ configLine' = [configLine EXCEPT ![r] = BuildLogLine(logLine[r], containerID[r])]
  /\ \E ok \in BOOLEAN :
       IF ok
       THEN /\ pc' = [pc EXCEPT ![r] = "poll"]
            /\ UNCHANGED <<result, closed, exit>>
       ELSE Return(r, EncodingError("MarshalJSON"), "encoding")
  /\ UNCHANGED <<shared, ctxDone, doneAt, fetchState, opened, deferred, scanner,
                 containerID, Logs, emitted>>

\* Poll that never looks at ctx.Done()
PollIgnoresDone(r) ==
  /\ pc[r] = "poll"
  /\ pc' = [pc EXCEPT ![r] = "send"]
  /\ UNCHANGED <<result, closed, exit>>
  /\ UNCHANGED <<shared, ctxDone, doneAt, fetchState, opened, deferred, scanner,
                 containerID, configLine, Logs, emitted>>

\* select { case <-ctx.Done(): return nil; default: ... }
Poll(r) ==
  /\ pc[r] = "poll"
  /\ IF ctxDone[r]
     THEN Return(r, Nil, "cancelled")
     ELSE /\ pc' = [pc EXCEPT ![r] = "send"]
          /\ UNCHANGED <<result, closed, exit>>
  /\ UNCHANGED <<shared, ctxDone, doneAt, fetchState, opened, deferred, scanner,
                 containerID, configLine, Logs, emitted>>

\* config.Logs <- &configLine: blocks while the channel is full
Send(r) ==
  /\ pc[r] = "send"
  /\ Len(Logs[r]) < ChanCap
  /\ Logs' = [Logs EXCEPT ![r] = Append(@, configLine[r])]
  /\ emitted' = [emitted EXCEPT ![r] = Append(@, configLine[r])]
  /\ pc' = [pc EXCEPT ![r] = "scan"]
  /\ UNCHANGED <<shared, ctxDone, doneAt, fetchState, stream, scanner,
                 containerID, configLine, result, exit>>

(* ---------------------------- environment ------------------------------ *)

\* the host receives one LogLine from config.Logs
HostRecv(r) ==
  /\ Logs[r] # <<>>
  /\ Logs' = [Logs EXCEPT ![r] = Tail(@)]
  /\ UNCHANGED <<shared, ctxDone, doneAt, fetchState, stream, scanner, pc,
                 containerID, configLine, emitted, result, exit>>

\* the host cancels the request's context (of interest only while Log runs)
Cancel(r) ==
  /\ pc[r] # "done"
  /\ ~ctxDone[r]
  /\ ctxDone' = [ctxDone EXCEPT ![r] = TRUE]
  /\ doneAt' = [doneAt EXCEPT ![r] = Len(emitted[r])]
  /\ UNCHANGED <<shared, fetchState, stream, scanner, pc, containerID,
                 configLine, Logs, emitted, result, exit>>

(* --------------------------- specifications ---------------------------- *)

\* the state of the requests rs when the host has just called Log
Called(rs) ==
  /\ reqs = rs
  /\ bucket = BucketName
  /\ s3Client = ClientHandle
  /\ ctxDone = [r \in rs |-> FALSE]
  /\ pc = [r \in rs |-> "entry"]
  /\ containerID = [r \in rs |-> ""]
  /\ fetches = [r \in rs |-> 0]
  /\ fetchErr = [r \in rs |-> "nil"]
  /\ opened = [r \in rs |-> 0]
  /\ closed = [r \in rs |-> 0]
  /\ deferred = [r \in rs |-> 0]
  /\ start = [r \in rs |-> 0]
  /\ end = [r \in rs |-> 0]
  /\ serr = [r \in rs |-> "nil"]
  /\ logLine = [r \in rs |-> <<>>]
  /\ configLine = [r \in rs |-> NoLine]
  /\ Logs = [r \in rs |-> <<>>]
  /\ emitted = [r \in rs |-> <<>>]
  /\ result = [r \in rs |-> Pending]
  /\ doneAt = [r \in rs |-> -1]
  /\ doneAtFetch = [r \in rs |-> FALSE]
  /\ exit = [r \in rs |-> ""]

\* one request, for any container, source tag and object
Init ==
  /\ Called({1})
  /\ \E s \in Sources, k \in ContainerIDs, o \in Objects :
       /\ config = [r \in {1} |-> [Source |-> s, ContainerID |-> k]]
       /\ remote = [b \in {BucketName} |->
                     [x \in ContainerIDs |-> IF x = k THEN o ELSE Decoy]]

\* two concurrent requests for different containers
InitConc ==
  /\ Called({1, 2})
  /\ \E s1 \in Sources, s2 \in Sources, o1 \in ConcObjects, o2 \in ConcObjects :
       /\ config = [r \in {1, 2} |->
                     [Source |-> IF r = 1 THEN s1 ELSE s2,
                      ContainerID |-> IF r = 1 THEN "c1" ELSE "c2"]]
       /\ remote = [b \in {BucketName} |->
                     [x \in ContainerIDs |-> IF x = "c1" THEN o1 ELSE o2]]

\* the steps of the goroutine running Log for r
Relay(r) ==
  \/ LogEnter(r)
  \/ Fetch(r)
  \/ ScanToken(r)
  \/ ScanRead(r)
  \/ ScanTooLong(r)
  \/ ScanStop(r)
  \/ Marshal(r)
  \/ Poll(r)
  \/ Send(r)

Next ==
  \/ \E r \in reqs : LogEnter(r)
  \/ \E r \in reqs : Fetch(r)
  \/ \E r \in reqs : ScanToken(r)
  \/ \E r \in reqs : ScanRead(r)
  \/ \E r \in reqs : ScanTooLong(r)
  \/ \E r \in reqs : ScanStop(r)
  \/ \E r \in reqs : Marshal(r)
  \/ \E r \in reqs : Poll(r)
  \/ \E r \in reqs : Send(r)
  \/ \E r \in reqs : HostRecv(r)
  \/ \E r \in reqs : Cancel(r)

Spec == Init /\ [][Next]_vars

SpecConc == InitConc /\ [][Next]_vars

\* the Go scheduler runs a goroutine that can take a step; nothing obliges the
\* host to receive or to cancel
FairSpec == Spec /\ WF_vars(Relay(1))

(* ------------------------------ claims --------------------------------- *)

\* the line texts of a sequence of LogLines
Texts(lines) == [i \in 1..Len(lines) |-> lines[i].Line]

\* The newline-delimited records of a body: the pieces between newlines, a
\* carriage return before the newline being part of the line end; bytes after
\* the last newline are a final record.
RECURSIVE Records(_)
Records(c) ==
  IF c = <<>> THEN <<>>
  ELSE IF IndexNL(c) = 0 THEN <<DropCR(c)>>
  ELSE <<DropCR(SubSeq(c, 1, IndexNL(c) - 1))>> \o Records(SubSeq(c, IndexNL(c) + 1, Len(c)))

IsPrefix(s, t) == Len(s) <= Len(t) /\ \A i \in 1..Len(s) : s[i] = t[i]

Serviced(r) == config[r].Source = ""
FetchOK(r) == fetches[r] = 1 /\ fetchErr[r] = "nil"

\* C1 (as claimed): once the context is cancelled with N lines pushed, the
\* channel never receives an (N+1)-th line, and the return that observes the
\* cancellation is nil.
C1_NoLineAfterCancel ==
  \A r \in reqs :
    (Serviced(r) /\ doneAt[r] >= 0) =>
      /\ Len(emitted[r]) <= doneAt[r]
      /\ (exit[r] = "cancelled" => result[r] = Nil)

\* C1 (amended): once the context is cancelled with N lines pushed, at most one
\* further line is pushed (the one whose poll came before the cancellation);
\* a request waiting at the poll or beyond it with the cancellation seen has
\* pushed nothing it should not, and the return that observes the cancellation
\* is nil.
C1_AtMostOneLineAfterCancel ==
  \A r \in reqs :
    (Serviced(r) /\ doneAt[r] >= 0) =>
      /\ Len(emitted[r]) <= doneAt[r] + 1
      /\ (exit[r] = "cancelled" => result[r] = Nil)
      /\ (pc[r] = "send" => Len(emitted[r]) = doneAt[r])

C1_Witness ==
  \E r \in reqs :
    /\ Serviced(r) /\ exit[r] = "cancelled" /\ result[r] = Nil
    /\ doneAt[r] >= 1
    /\ Len(emitted[r]) = doneAt[r] + 1
    /\ start[r] < Len(Body(r))

\* C2: a request whose object exists and whose context was cancelled before
\* the fetch started returns nil and emits nothing.
C2_CancelledBeforeFetchReturnsNil ==
  \A r \in reqs :
    (Serviced(r) /\ pc[r] = "done" /\ doneAtFetch[r]
       /\ GetObject(bucket, config[r].ContainerID).exists) =>
      (result[r] = Nil /\ emitted[r] = <<>>)

\* C3: when a request whose fetch succeeded (and whose body was read without a
\* network error) and whose context was never cancelled returns, the texts
\* pushed are exactly the object's records, in order.
C3_AllRecordsEmitted ==
  \A r \in reqs :
    (Serviced(r) /\ pc[r] = "done" /\ FetchOK(r) /\ serr[r] # "ReadError"
       /\ ~ctxDone[r]) =>
      Texts(emitted[r]) = Records(Body(r))

\* C4: a failed fetch makes Log return a FetchError carrying the cause, with
\* no line pushed, after exactly one call of GetObjectWithContext.
C4_FetchFailure ==
  \A r \in reqs :
    /\ fetches[r] <= 1
    /\ fetchErr[r] # "nil" =>
         /\ Serviced(r)
         /\ pc[r] = "done"
         /\ result[r] = FetchError(fetchErr[r])
         /\ emitted[r] = <<>> /\ Logs[r] = <<>>
         /\ fetches[r] = 1

C4_Witness ==
  \E r \in reqs :
    /\ fetchErr[r] = "NoSuchKey" /\ pc[r] = "done"
    /\ ~GetObject(bucket, containerID[r]).exists

\* C5: a request with a non-empty source tag returns nil, fetches nothing and
\* never pushes a line.
C5_FilteredSilent ==
  \A r \in reqs :
    config[r].Source # "" =>
      /\ emitted[r] = <<>> /\ Logs[r] = <<>>
      /\ fetches[r] = 0
      /\ result[r] \in {Pending, Nil}
      /\ pc[r] \in {"entry", "done"}
      /\ (pc[r] = "done" => result[r] = Nil)

C5_Witness ==
  \E r \in reqs :
    /\ config[r].Source # "" /\ pc[r] = "done" /\ result[r] = Nil
    /\ ctxDone[r]
    /\ GetObject(bucket, config[r].ContainerID).exists

\* C6: the stream a fetch opened is closed exactly once, at the return of Log
\* and on each of its return paths; a failed fetch opens and closes nothing.
C6_ClosedExactlyOnce ==
  \A r \in reqs :
    /\ opened[r] <= 1
    /\ closed[r] <= opened[r]
    /\ (pc[r] = "done" => closed[r] = opened[r])
    /\ (pc[r] # "done" => closed[r] = 0)
    /\ (exit[r] \in {"exhausted", "cancelled", "encoding"} =>
          (opened[r] = 1 /\ closed[r] = 1))
    /\ (exit[r] \in {"fetch", "filtered"} => (opened[r] = 0 /\ closed[r] = 0))

C6_Witness ==
  \E r \in reqs :
    /\ exit[r] = "encoding" /\ opened[r] = 1 /\ closed[r] = 1
    /\ Len(emitted[r]) >= 1

\* C7: every LogLine a request has pushed carries that request's container
\* identifier as Source and Partial = FALSE, also with two requests running.
C7_SourceAndPartial ==
  \A r \in reqs :
    /\ \A i \in 1..Len(emitted[r]) :
         emitted[r][i].Source = config[r].ContainerID /\ emitted[r][i].Partial = FALSE
    /\ \A i \in 1..Len(Logs[r]) :
         Logs[r][i].Source = config[r].ContainerID /\ Logs[r][i].Partial = FALSE

C7_Witness ==
  /\ reqs = {1, 2}
  /\ pc[1] = "send" /\ pc[2] = "send"
  /\ Len(emitted[1]) >= 1 /\ Len(emitted[2]) >= 1
  /\ config[1].ContainerID # config[2].ContainerID

\* what belongs to request r alone
Local(r) ==
  <<ctxDone[r], pc[r], containerID[r], fetches[r], fetchErr[r], opened[r],
    closed[r], deferred[r], start[r], end[r], serr[r], logLine[r],
    configLine[r], Logs[r], emitted[r], result[r], exit[r]>>

\* C8: no step changes the bucket name, the client handle or the stored
\* objects, and a step of one request (a failed fetch among them) changes
\* nothing of the other request.
C8_Isolated ==
  [][/\ bucket' = bucket /\ s3Client' = s3Client /\ remote' = remote
     /\ \A r \in reqs : \A q \in reqs :
          (r # q /\ Local(r)' # Local(r)) => Local(q)' = Local(q)]_vars

C8_Witness ==
  /\ reqs = {1, 2}
  /\ exit[1] = "fetch" /\ result[1] = FetchError("NoSuchKey")
  /\ exit[2] = "exhausted" /\ result[2] = Nil
  /\ Texts(emitted[2]) = Records(Body(2))
  /\ Len(emitted[2]) = 2
  /\ s3Client = ClientHandle /\ bucket = BucketName

\* C9: a request whose context has been cancelled eventually returns.
C9_CancelledReturns == (ctxDone[1] /\ pc[1] # "done") ~> (pc[1] = "done")

\* C10: the texts pushed so far are a prefix of the object's records.
C10_PrefixOfRecords ==
  \A r \in reqs : opened[r] = 1 => IsPrefix(Texts(emitted[r]), Records(Body(r)))

====
